---- MODULE Spec2Model ----
(***************************************************************************)
(* Reverse-mode automatic differentiation over scalar values               *)
(* (src/src/engine.rs) with the Neuron / Layer / MLP layer on top of it    *)
(* (src/src/nn.rs).                                                        *)
(*                                                                         *)
(* A Value is an Rc<RefCell<Data>>: a node is identified by its address.   *)
(* The model keeps the heap as parallel sequences indexed by node id       *)
(* (1..Len(data)); a node id plays the role of the pointer.                *)
(*                                                                         *)
(* f64 values are modelled by integers: every operation modelled here      *)
(* (+, *, powf with a natural exponent, -=) is exact in f64 on the small   *)
(* integers used.  tanh is modelled by its value rounded to the nearest    *)
(* integer (see TanhF); exp and log have no integer model and are left     *)
(* out, as are sub, neg and div, which are compositions of mul, add, pow.  *)
(***************************************************************************)
EXTENDS Integers, Sequences, FiniteSets, TLC

VARIABLES
    data,       \* Data.data of every node
    grad,       \* Data.grad of every node
    parents,    \* Data.parents of every node: a sequence of node ids
    op,         \* Data.op of every node: "None" for a leaf
    cap,        \* what the node's _backward closure captured by value
    opvals,     \* history: the operands' data when the node was constructed
    params,     \* Module::parameters() of the module, also SGD.params
    lr,         \* SGD.lr
    pc,         \* "idle", or where the backward() call is: "topo", "seed", "done", "overflow"
    root,       \* self of the running backward() call
    visited,    \* local of backward(): the HashSet of visited pointers
    topo,       \* local of backward(): the order being built
    stack,      \* the call stack of build_topo: frames [v, i]
    invoked,    \* history: nodes whose _backward has run in this call, in order
    outGrads,   \* history: the out_grad each of them read from its own node
    grad0,      \* history: grad when this backward() call started
    afterZero,  \* history: this call is the first backward() since a zero_grad()
    zeroed,     \* history: zero_grad() ran and no backward() started since
    nCalls,     \* number of backward(), zero_grad() and step() calls made
    layers,     \* MLP.layers: each layer a sequence of neurons [w, b, nonlin]
    sizes,      \* history: sz of MLP::new, the input width then each layer's
    xin,        \* the input nodes handed to MLP::call
    louts       \* history: what each Layer::call of the MLP::call returned

vars == <<data, grad, parents, op, cap, opvals, params, lr, pc, root, visited,
          topo, stack, invoked, outGrads, grad0, afterZero, zeroed, nCalls,
          layers, sizes, xin, louts>>

store == <<data, grad, parents, op, cap, opvals>>
call == <<root, visited, topo, stack, invoked, outGrads, grad0, afterZero>>
net == <<layers, sizes, xin, louts>>

(***************************************************************************)
(* Bounds of the model.                                                    *)
(***************************************************************************)
MaxNodes == 3
MaxOps == 6
MaxAbs == 100
LeafVals == {2, 3}
LrVals == {2}
PowExps == {2}

(***************************************************************************)
(* Helpers.                                                                *)
(***************************************************************************)
Range(s) == {s[i] : i \in DOMAIN s}

Nodes == 1..Len(data)

Abs(x) == IF x < 0 THEN -x ELSE x

\* every stored number is small enough for the arithmetic on it to be exact
InRange == \A n \in Nodes : Abs(data[n]) <= MaxAbs /\ Abs(grad[n]) <= MaxAbs

\* the constructor, backward(), zero_grad() and step() calls made so far
nOps == Len(data) + nCalls

NoCap == [x |-> 0, t |-> 0, exponent |-> 0]

RECURSIVE PowF(_, _)
\* f64::powf for a natural exponent
PowF(x, k) == IF k = 0 THEN 1 ELSE x * PowF(x, k - 1)

\* f64::tanh rounded to the nearest integer: tanh(0) = 0, |tanh(x)| > 0.76 for |x| >= 1
TanhF(x) == IF x > 0 THEN 1 ELSE IF x < 0 THEN -1 ELSE 0

(***************************************************************************)
(* Graph builder: each constructor allocates one node.  A heap value h is a *)
(* record of the six per-node sequences; a constructor maps a heap to the   *)
(* heap with the new node appended, and the new node is Last of it.         *)
(***************************************************************************)
Heap ==
    [data |-> data, grad |-> grad, parents |-> parents, op |-> op, cap |-> cap,
     opvals |-> opvals]

EmptyHeap ==
    [data |-> <<>>, grad |-> <<>>, parents |-> <<>>, op |-> <<>>, cap |-> <<>>,
     opvals |-> <<>>]

\* the heap becomes h
SetHeap(h) ==
    /\ data' = h.data
    /\ grad' = h.grad
    /\ parents' = h.parents
    /\ op' = h.op
    /\ cap' = h.cap
    /\ opvals' = h.opvals

\* the node the latest constructor returned
Last(h) == Len(h.data)

\* Value(Rc::new(RefCell::new(Data {..}))) with grad 0.0
Alloc(h, d, ps, o, c) ==
    [data |-> Append(h.data, d),
     grad |-> Append(h.grad, 0),
     parents |-> Append(h.parents, ps),
     op |-> Append(h.op, o),
     cap |-> Append(h.cap, c),
     opvals |-> Append(h.opvals, [i \in DOMAIN ps |-> h.data[ps[i]]])]

\* e, with the heap h computed first.  Only the order of evaluation: operator
\* arguments are evaluated on demand, and a long chain of pending constructors
\* would be unwound in one deep recursion
After(h, e) == IF Len(h.data) >= 0 THEN e ELSE e

\* Value::new(data)
ValueNew(h, v) == Alloc(h, v, <<>>, "None", NoCap)

\* &a + &b
ValueAdd(h, a, b) == Alloc(h, h.data[a] + h.data[b], <<a, b>>, "Add", NoCap)

\* &a * &b
ValueMul(h, a, b) == Alloc(h, h.data[a] * h.data[b], <<a, b>>, "Mul", NoCap)

\* a.pow(exponent): the closure captures x and exponent
ValuePow(h, a, k) ==
    Alloc(h, PowF(h.data[a], k), <<a>>, "Pow", [x |-> h.data[a], t |-> 0, exponent |-> k])

\* a.tanh(): the closure captures the output t
ValueTanh(h, a) ==
    LET t == TanhF(h.data[a])
    IN  Alloc(h, t, <<a>>, "Tanh", [x |-> 0, t |-> t, exponent |-> 0])

\* Value::new(data) for a parameter of the module (as Neuron::new does for each
\* weight and the bias); the module is built, and handed to SGD::new, before use
NewParam(v) ==
    /\ pc = "idle"
    /\ Len(data) < MaxNodes
    /\ nOps < MaxOps
    /\ InRange
    /\ Len(params) = Len(data)
    /\ nCalls = 0
    /\ SetHeap(ValueNew(Heap, v))
    /\ params' = Append(params, Len(data) + 1)
    /\ UNCHANGED <<lr, pc, call, zeroed, nCalls, net>>

\* Value::new(data), for a leaf that is not a parameter of the module
NewLeaf(v) ==
    /\ pc = "idle"
    /\ Len(data) < MaxNodes
    /\ nOps < MaxOps
    /\ InRange
    /\ SetHeap(ValueNew(Heap, v))
    /\ UNCHANGED <<params, lr, pc, call, zeroed, nCalls, net>>

\* &a + &b
Add(a, b) ==
    /\ pc = "idle"
    /\ Len(data) < MaxNodes
    /\ nOps < MaxOps
    /\ InRange
    /\ SetHeap(ValueAdd(Heap, a, b))
    /\ UNCHANGED <<params, lr, pc, call, zeroed, nCalls, net>>

\* &a * &b
Mul(a, b) ==
    /\ pc = "idle"
    /\ Len(data) < MaxNodes
    /\ nOps < MaxOps
    /\ InRange
    /\ SetHeap(ValueMul(Heap, a, b))
    /\ UNCHANGED <<params, lr, pc, call, zeroed, nCalls, net>>

\* a.pow(exponent)
Pow(a, k) ==
    /\ pc = "idle"
    /\ Len(data) < MaxNodes
    /\ nOps < MaxOps
    /\ InRange
    /\ SetHeap(ValuePow(Heap, a, k))
    /\ UNCHANGED <<params, lr, pc, call, zeroed, nCalls, net>>

(***************************************************************************)
(* The _backward closures.                                                 *)
(***************************************************************************)
\* Accumulate with the gradient overwritten (grad = delta) instead of added to
AccumulateOverwrite(g, n, delta) == [g EXCEPT ![n] = delta]

\* g with delta added into node n's gradient: n.0.borrow_mut().grad += delta
Accumulate(g, n, delta) == [g EXCEPT ![n] = @ + delta]

\* the closure built by Add: reads out_grad once, then adds it to left and to right
BackwardAdd(g, n) ==
    LET out_grad == g[n]
        g1 == Accumulate(g, parents[n][1], out_grad)
    IN  Accumulate(g1, parents[n][2], out_grad)

\* the closure built by Mul: reads the operands' data when it runs
BackwardMul(g, n) ==
    LET out_grad == g[n]
        l_data == data[parents[n][1]]
        r_data == data[parents[n][2]]
        g1 == Accumulate(g, parents[n][1], r_data * out_grad)
    IN  Accumulate(g1, parents[n][2], l_data * out_grad)

\* the closure built by pow: uses the captured x and exponent
BackwardPow(g, n) ==
    LET out_grad == g[n]
        local_derivative == cap[n].exponent * PowF(cap[n].x, cap[n].exponent - 1)
    IN  Accumulate(g, parents[n][1], local_derivative * out_grad)

\* the closure built by tanh: uses the captured output t
BackwardTanh(g, n) ==
    LET out_grad == g[n]
        local_derivative == 1 - cap[n].t * cap[n].t
    IN  Accumulate(g, parents[n][1], local_derivative * out_grad)

\* if let Some(ref backward_fn) = node.0.borrow()._backward { backward_fn(); }
RunBackwardFn(g, n) ==
    CASE op[n] = "Add" -> BackwardAdd(g, n)
      [] op[n] = "Mul" -> BackwardMul(g, n)
      [] op[n] = "Pow" -> BackwardPow(g, n)
      [] op[n] = "Tanh" -> BackwardTanh(g, n)
      [] OTHER -> g

(***************************************************************************)
(* Value::backward: build_topo, run with an explicit call stack.           *)
(* A frame [v, i] is an activation of build_topo(v) that has iterated over *)
(* the first i parents of v.  st is [visited, topo, stack, overflow].      *)
(***************************************************************************)
\* the deepest recursion the native call stack holds
StackLimit == 8

\* Key by the node's contents instead of its address
KeyByValue(v) == <<data[v], grad[v]>>

\* let ptr = v.0.as_ptr(): the key a node is visited under
Key(v) == v

\* EnterNode without visited.insert(ptr)
EnterNodeNoMark(par, st, v) ==
    IF Key(v) \in st.visited
    THEN st
    ELSE IF Len(st.stack) >= StackLimit
    THEN [st EXCEPT !.overflow = TRUE]
    ELSE [st EXCEPT !.stack = Append(@, [v |-> v, i |-> 0])]

\* build_topo(v, ..) up to its loop: returns at once when v is visited,
\* otherwise marks v and starts iterating over its parents
EnterNode(par, st, v) ==
    IF Key(v) \in st.visited
    THEN st
    ELSE IF Len(st.stack) >= StackLimit
    THEN [st EXCEPT !.overflow = TRUE]
    ELSE [st EXCEPT !.visited = @ \cup {Key(v)},
                    !.stack = Append(@, [v |-> v, i |-> 0])]

\* one step of the innermost activation: the next iteration of its loop over
\* the parents, or topo.push(v) and return once the loop is over
TopoStep(par, st) ==
    LET d == Len(st.stack)
        f == st.stack[d]
    IN  IF f.i < Len(par[f.v])
        THEN EnterNode(par, [st EXCEPT !.stack[d].i = f.i + 1], par[f.v][f.i + 1])
        ELSE [st EXCEPT !.topo = Append(@, f.v), !.stack = SubSeq(@, 1, d - 1)]

EmptyTopo == [visited |-> {}, topo |-> <<>>, stack |-> <<>>, overflow |-> FALSE]

RECURSIVE TopoRun(_, _)
TopoRun(par, st) ==
    IF st.stack = <<>> \/ st.overflow THEN st ELSE TopoRun(par, TopoStep(par, st))

\* the order build_topo(self, ..) leaves in topo
BuildTopo(par, r) == TopoRun(par, EnterNode(par, EmptyTopo, r)).topo

\* one iteration of: for node in topo.iter().rev() { if let Some(ref backward_fn)
\* = node.0.borrow()._backward { backward_fn(); } }.  ls is [g, invoked, outGrads]:
\* the gradients, the nodes whose closure has run, and the out_grad each one read
LoopStep(ls, node) ==
    IF op[node] # "None"
    THEN [g |-> RunBackwardFn(ls.g, node),
          invoked |-> Append(ls.invoked, node),
          outGrads |-> Append(ls.outGrads, ls.g[node])]
    ELSE ls

RECURSIVE ForwardLoop(_, _, _)
\* ReverseLoop without the .rev(): the order is walked front to back
ForwardLoop(ls, order, i) ==
    IF i = 0
    THEN ls
    ELSE ForwardLoop(LoopStep(ls, order[Len(order) - i + 1]), order, i - 1)

RECURSIVE ReverseLoop(_, _, _)
\* the loop over topo.iter().rev(), with i nodes of order left to do
ReverseLoop(ls, order, i) ==
    IF i = 0 THEN ls ELSE ReverseLoop(LoopStep(ls, order[i]), order, i - 1)

\* SeedRoot that also clears every other gradient before the pass
SeedRootReset(g, r) == [n \in DOMAIN g |-> IF n = r THEN 1 ELSE 0]

\* self.0.borrow_mut().grad = 1.0
SeedRoot(g, r) == [g EXCEPT ![r] = 1]

\* Propagate over a tape: the loop walks every node ever allocated, newest first,
\* instead of the order build_topo built from r
PropagateTape(g, r, order) ==
    ReverseLoop([g |-> SeedRoot(g, r), invoked |-> <<>>, outGrads |-> <<>>],
                [i \in 1..Len(g) |-> i], Len(g))

\* backward(r) after build_topo left order in topo: the seed, then the loop
Propagate(g, r, order) ==
    ReverseLoop([g |-> SeedRoot(g, r), invoked |-> <<>>, outGrads |-> <<>>],
                order, Len(order))

\* the gradients a whole backward(r) call leaves when it starts from gradients g
BackwardFrom(g, r) == Propagate(g, r, BuildTopo(parents, r)).g

\* the body of self.backward(): build_topo, the seed and the loop, with the
\* history of the call
BackwardRun(r) ==
    /\ LET st == TopoRun(parents, EnterNode(parents, EmptyTopo, r))
           ls == Propagate(grad, r, st.topo)
       IN  /\ visited' = st.visited
           /\ topo' = st.topo
           /\ stack' = st.stack
           /\ pc' = IF st.overflow THEN "overflow" ELSE "done"
           /\ grad' = IF st.overflow THEN grad ELSE ls.g
           /\ invoked' = IF st.overflow THEN <<>> ELSE ls.invoked
           /\ outGrads' = IF st.overflow THEN <<>> ELSE ls.outGrads
    /\ root' = r
    /\ grad0' = grad
    /\ afterZero' = zeroed
    /\ zeroed' = FALSE
    /\ nCalls' = nCalls + 1
    /\ UNCHANGED <<data, parents, op, cap, opvals, params, lr, net>>

\* self.backward(), the whole call
Backward(r) ==
    /\ pc = "idle"
    /\ nOps < MaxOps
    /\ InRange
    /\ BackwardRun(r)

\* backward() has returned; its locals are dropped
BackwardReturn ==
    /\ pc = "done"
    /\ pc' = "idle"
    /\ root' = 0
    /\ visited' = {}
    /\ topo' = <<>>
    /\ stack' = <<>>
    /\ invoked' = <<>>
    /\ outGrads' = <<>>
    /\ grad0' = <<>>
    /\ afterZero' = FALSE
    /\ UNCHANGED <<store, params, lr, zeroed, nCalls, net>>

(***************************************************************************)
(* Module::zero_grad and SGD::step.                                        *)
(***************************************************************************)
RECURSIVE ZeroGradLoopSkipsLast(_, _)
\* ZeroGradLoop that stops one parameter early
ZeroGradLoopSkipsLast(g, i) ==
    IF i >= Len(params)
    THEN g
    ELSE ZeroGradLoopSkipsLast([g EXCEPT ![params[i]] = 0], i + 1)

RECURSIVE ZeroGradLoop(_, _)
\* for p in self.parameters() { p.0.borrow_mut().grad = 0.0; }, from position i on
ZeroGradLoop(g, i) ==
    IF i > Len(params) THEN g ELSE ZeroGradLoop([g EXCEPT ![params[i]] = 0], i + 1)

ZeroGrad ==
    /\ pc = "idle"
    /\ nOps < MaxOps
    /\ InRange
    /\ grad' = ZeroGradLoop(grad, 1)
    /\ zeroed' = TRUE
    /\ nCalls' = nCalls + 1
    /\ UNCHANGED <<data, parents, op, cap, opvals, params, lr, pc, call, net>>

RECURSIVE StepLoopNoLr(_, _)
\* StepLoop that leaves the learning rate out: data.data -= data.grad
StepLoopNoLr(d, i) ==
    IF i > Len(params)
    THEN d
    ELSE StepLoopNoLr([d EXCEPT ![params[i]] = @ - grad[params[i]]], i + 1)

RECURSIVE StepLoop(_, _)
\* for p in &self.params { data.data -= self.lr * data.grad; }, from position i on
StepLoop(d, i) ==
    IF i > Len(params)
    THEN d
    ELSE StepLoop([d EXCEPT ![params[i]] = @ - lr * grad[params[i]]], i + 1)

Step ==
    /\ pc = "idle"
    /\ nOps < MaxOps
    /\ InRange
    /\ data' = StepLoop(data, 1)
    /\ nCalls' = nCalls + 1
    /\ UNCHANGED <<grad, parents, op, cap, opvals, params, lr, pc, call, zeroed, net>>

(***************************************************************************)
(* The engine with a module of leaf parameters and an SGD over them.       *)
(***************************************************************************)
\* program start: no node exists yet
Init ==
    /\ data = <<>>
    /\ grad = <<>>
    /\ parents = <<>>
    /\ op = <<>>
    /\ cap = <<>>
    /\ opvals = <<>>
    /\ params = <<>>
    /\ lr \in LrVals
    /\ pc = "idle"
    /\ root = 0
    /\ visited = {}
    /\ topo = <<>>
    /\ stack = <<>>
    /\ invoked = <<>>
    /\ outGrads = <<>>
    /\ grad0 = <<>>
    /\ afterZero = FALSE
    /\ zeroed = FALSE
    /\ nCalls = 0
    /\ layers = <<>>
    /\ sizes = <<>>
    /\ xin = <<>>
    /\ louts = <<>>

Next ==
    \/ \E v \in LeafVals : NewParam(v)
    \/ \E v \in LeafVals : NewLeaf(v)
    \/ \E a \in Nodes, b \in Nodes : Add(a, b)
    \/ \E a \in Nodes, b \in Nodes : Mul(a, b)
    \/ \E a \in Nodes, k \in PowExps : Pow(a, k)
    \/ \E r \in Nodes : Backward(r)
    \/ BackwardReturn
    \/ ZeroGrad
    \/ Step

Spec == Init /\ [][Next]_vars

(***************************************************************************)
(* build_topo over any parent relation.  Data.parents is a pub field behind a *)
(* pub Rc<RefCell<..>>, so a caller can link nodes into a cycle, which no     *)
(* constructor does; here the graph is any one over at most MaxCycNodes nodes *)
(* and the traversal runs one step of build_topo at a time.                   *)
(***************************************************************************)
MaxCycNodes == 2

\* the parent lists a node can hold: none, one or two of the nodes 1..n
ParentLists(n) ==
    {<<>>} \cup {<<a>> : a \in 1..n} \cup {<<a, b>> : a \in 1..n, b \in 1..n}

InitCyc ==
    /\ \E n \in 1..MaxCycNodes :
        /\ parents \in [1..n -> ParentLists(n)]
        /\ data = [i \in 1..n |-> 2]
        /\ grad = [i \in 1..n |-> 0]
        /\ cap = [i \in 1..n |-> NoCap]
        /\ opvals = [i \in 1..n |-> <<>>]
    /\ op = [i \in DOMAIN parents |->
                IF Len(parents[i]) = 0 THEN "None"
                ELSE IF Len(parents[i]) = 1 THEN "Tanh" ELSE "Add"]
    /\ params = <<>>
    /\ lr \in LrVals
    /\ pc = "idle"
    /\ root = 0
    /\ visited = {}
    /\ topo = <<>>
    /\ stack = <<>>
    /\ invoked = <<>>
    /\ outGrads = <<>>
    /\ grad0 = <<>>
    /\ afterZero = FALSE
    /\ zeroed = FALSE
    /\ nCalls = 0
    /\ layers = <<>>
    /\ sizes = <<>>
    /\ xin = <<>>
    /\ louts = <<>>

\* the locals of the running build_topo recursion
CallState ==
    [visited |-> visited, topo |-> topo, stack |-> stack, overflow |-> pc = "overflow"]

\* where the call is once build_topo is in state st: recursing, out of stack, or
\* back in backward() and about to seed the root
AfterTopo(st) ==
    IF st.overflow THEN "overflow" ELSE IF st.stack = <<>> THEN "seed" ELSE "topo"

\* self.backward() is called: build_topo(self, ..) is entered
BackwardCall(r) ==
    /\ pc = "idle"
    /\ LET st == EnterNode(parents, EmptyTopo, r)
       IN  /\ visited' = st.visited
           /\ topo' = st.topo
           /\ stack' = st.stack
           /\ pc' = AfterTopo(st)
    /\ root' = r
    /\ grad0' = grad
    /\ nCalls' = nCalls + 1
    /\ UNCHANGED <<store, params, lr, invoked, outGrads, afterZero, zeroed, net>>

\* one step of the build_topo recursion
BuildTopoStep ==
    /\ pc = "topo"
    /\ LET st == TopoStep(parents, CallState)
       IN  /\ visited' = st.visited
           /\ topo' = st.topo
           /\ stack' = st.stack
           /\ pc' = AfterTopo(st)
    /\ UNCHANGED <<store, params, lr, root, invoked, outGrads, grad0, afterZero,
                   zeroed, nCalls, net>>

NextCyc ==
    \/ \E r \in Nodes : BackwardCall(r)
    \/ BuildTopoStep

\* the program is sequential and keeps running: a started traversal takes its
\* next step
SpecCyc == InitCyc /\ [][NextCyc]_vars /\ WF_vars(BuildTopoStep)

(***************************************************************************)
(* Neuron, Layer and MLP (src/src/nn.rs).  A neuron is [w, b, nonlin] with *)
(* w a sequence of nodes and b a node; a layer is a sequence of neurons.   *)
(***************************************************************************)
MaxWidth == 2
MaxLayers == 2

Min(a, b) == IF a < b THEN a ELSE b

\* rng.gen_range(-1.0..1.0): draw number k of a generator started at seed; of
\* the range only the integers -1 and 0 are modelled
GenRange(seed, k) == IF (seed + k) % 2 = 0 THEN -1 ELSE 0

RECURSIVE NewWeights(_, _, _, _)
\* (0..nin).map(|_| Value::new(rng.gen_range(-1.0..1.0))), with n weights to go
NewWeights(h, seed, k, n) ==
    IF n = 0
    THEN h
    ELSE LET h1 == ValueNew(h, GenRange(seed, k))
         IN  After(h1, NewWeights(h1, seed, k + 1, n - 1))

\* Neuron::new(nin, nonlin), the generator having made k draws: [h, neuron]
NeuronNew(h, seed, k, nin, nonlin) ==
    LET first == Len(h.data)
        h1 == NewWeights(h, seed, k, nin)
    IN  [h |-> ValueNew(h1, 0),
         neuron |-> [w |-> [i \in 1..nin |-> first + i],
                     b |-> first + nin + 1,
                     nonlin |-> nonlin]]

RECURSIVE NewNeurons(_, _, _, _, _, _)
\* (0..nout).map(|_| Neuron::new(nin, nonlin)), with left neurons to go;
\* acc is [h, neurons]
NewNeurons(acc, seed, k, nin, left, nonlin) ==
    IF left = 0
    THEN acc
    ELSE LET r == NeuronNew(acc.h, seed, k, nin, nonlin)
         IN  After(r.h, NewNeurons([h |-> r.h, neurons |-> Append(acc.neurons, r.neuron)],
                                   seed, k + nin, nin, left - 1, nonlin))

\* Layer::new(nin, nout, nonlin): [h, neurons]
LayerNew(h, seed, k, nin, nout, nonlin) ==
    NewNeurons([h |-> h, neurons |-> <<>>], seed, k, nin, nout, nonlin)

\* NonlinOf with every layer nonlinear
NonlinAlways(i, n) == TRUE

\* MLP::new passes i != nouts.len() - 1 for layer i (counted from 0) of n
NonlinOf(i, n) == i # n - 1

RECURSIVE NewLayers(_, _, _, _, _)
\* (0..nouts.len()).map(|i| Layer::new(sz[i], sz[i + 1], ..)), from layer i
\* (counted from 0) on; acc is [h, layers]
NewLayers(acc, seed, k, sz, i) ==
    IF i >= Len(sz) - 1
    THEN acc
    ELSE LET r == LayerNew(acc.h, seed, k, sz[i + 1], sz[i + 2], NonlinOf(i, Len(sz) - 1))
         IN  After(r.h, NewLayers([h |-> r.h, layers |-> Append(acc.layers, r.neurons)],
                                  seed, k + sz[i + 1] * sz[i + 2], sz, i + 1))

\* MLP::new(nin, nouts): [h, layers]
MLPNew(h, seed, nin, nouts) ==
    NewLayers([h |-> h, layers |-> <<>>], seed, 0, <<nin>> \o nouts, 0)

\* NeuronParameters without p.push(self.b.clone())
NeuronParametersNoBias(nr) == nr.w

\* Neuron::parameters
NeuronParameters(nr) == Append(nr.w, nr.b)

RECURSIVE LayerParameters(_)
\* Layer::parameters: neurons.iter().flat_map(|n| n.parameters())
LayerParameters(layer) ==
    IF layer = <<>>
    THEN <<>>
    ELSE NeuronParameters(Head(layer)) \o LayerParameters(Tail(layer))

RECURSIVE MLPParameters(_)
\* MLP::parameters: layers.iter().flat_map(|l| l.parameters())
MLPParameters(ls) ==
    IF ls = <<>> THEN <<>> ELSE LayerParameters(Head(ls)) \o MLPParameters(Tail(ls))

\* how many pairs w.iter().zip(x.iter()) yields
ZipLen(w, x) == Min(Len(w), Len(x))

RECURSIVE FoldPairsCycle(_, _, _, _)
\* FoldPairs over w.iter().cycle().zip(x.iter()): the weights start over when
\* they run out before the inputs do
FoldPairsCycle(st, w, x, i) ==
    IF i > Len(x) \/ w = <<>>
    THEN st
    ELSE LET h1 == ValueMul(st.h, w[((i - 1) % Len(w)) + 1], x[i])
             h2 == ValueAdd(h1, st.acc, Last(h1))
         IN  After(h2, FoldPairsCycle([h |-> h2, acc |-> Last(h2)], w, x, i + 1))

RECURSIVE FoldPairs(_, _, _, _)
\* .map(|(wi, xi)| wi * xi).fold(b, |acc, val| &acc + &val) from pair i on;
\* st is [h, acc]
FoldPairs(st, w, x, i) ==
    IF i > ZipLen(w, x)
    THEN st
    ELSE LET h1 == ValueMul(st.h, w[i], x[i])
             h2 == ValueAdd(h1, st.acc, Last(h1))
         IN  After(h2, FoldPairs([h |-> h2, acc |-> Last(h2)], w, x, i + 1))

\* Neuron::call(x): [h, out]
NeuronCall(h, nr, x) ==
    LET act == FoldPairs([h |-> h, acc |-> nr.b], nr.w, x, 1)
    IN  IF nr.nonlin
        THEN LET h1 == ValueTanh(act.h, act.acc) IN [h |-> h1, out |-> Last(h1)]
        ELSE [h |-> act.h, out |-> act.acc]

RECURSIVE LayerCallFrom(_, _, _, _)
\* neurons.iter().map(|n| n.call(x)).collect() from neuron j on; acc is [h, outs]
LayerCallFrom(acc, layer, x, j) ==
    IF j > Len(layer)
    THEN acc
    ELSE LET r == NeuronCall(acc.h, layer[j], x)
         IN  After(r.h, LayerCallFrom([h |-> r.h, outs |-> Append(acc.outs, r.out)],
                                      layer, x, j + 1))

\* Layer::call(x): [h, outs]
LayerCall(h, layer, x) == LayerCallFrom([h |-> h, outs |-> <<>>], layer, x, 1)

RECURSIVE MLPCallFrom(_, _, _)
\* for layer in &self.layers { x = layer.call(&x); } from layer l on;
\* acc is [h, x, louts]
MLPCallFrom(acc, ls, l) ==
    IF l > Len(ls)
    THEN acc
    ELSE LET r == LayerCall(acc.h, ls[l], acc.x)
         IN  After(r.h, MLPCallFrom([h |-> r.h, x |-> r.outs,
                                     louts |-> Append(acc.louts, r.outs)], ls, l + 1))

\* MLP::call(x): [h, x, louts]
MLPCall(h, ls, x) == MLPCallFrom([h |-> h, x |-> x, louts |-> <<>>], ls, 1)

RECURSIVE NewInputs(_, _)
\* vec![Value::new(..), ..]: one leaf for each value of vals
NewInputs(h, vals) ==
    IF vals = <<>>
    THEN h
    ELSE LET h1 == ValueNew(h, Head(vals)) IN After(h1, NewInputs(h1, Tail(vals)))

\* the sequences over S of length 0..n
SeqsUpTo(S, n) == UNION {[1..m -> S] : m \in 0..n}

InitMLP ==
    /\ data = <<>>
    /\ grad = <<>>
    /\ parents = <<>>
    /\ op = <<>>
    /\ cap = <<>>
    /\ opvals = <<>>
    /\ params = <<>>
    /\ lr \in LrVals
    /\ pc = "start"
    /\ root = 0
    /\ visited = {}
    /\ topo = <<>>
    /\ stack = <<>>
    /\ invoked = <<>>
    /\ outGrads = <<>>
    /\ grad0 = <<>>
    /\ afterZero = FALSE
    /\ zeroed = FALSE
    /\ nCalls = 0
    /\ layers = <<>>
    /\ sizes = <<>>
    /\ xin = <<>>
    /\ louts = <<>>

\* let model = MLP::new(nin, nouts); SGD::new(model.parameters(), lr)
BuildMLP(seed, nin, nouts) ==
    /\ pc = "start"
    /\ LET r == MLPNew(Heap, seed, nin, nouts)
       IN  /\ SetHeap(r.h)
           /\ layers' = r.layers
           /\ params' = MLPParameters(r.layers)
    /\ sizes' = <<nin>> \o nouts
    /\ pc' = "idle"
    /\ UNCHANGED <<lr, call, zeroed, nCalls, xin, louts>>

\* model.call(vec![Value::new(..), ..])
Forward(vals) ==
    /\ pc = "idle"
    /\ xin = <<>>
    /\ louts = <<>>
    /\ LET h0 == NewInputs(Heap, vals)
           x == [i \in 1..Len(vals) |-> Len(data) + i]
           r == MLPCall(h0, layers, x)
       IN  /\ SetHeap(r.h)
           /\ xin' = x
           /\ louts' = r.louts
    /\ UNCHANGED <<params, lr, pc, call, zeroed, nCalls, layers, sizes>>

\* out[j].backward() on an output of model.call(x), of any layer
BackwardOut(r) ==
    /\ pc = "idle"
    /\ \E l \in DOMAIN louts : r \in Range(louts[l])
    /\ BackwardRun(r)

NextMLP ==
    \/ \E seed \in 0..1, nin \in 0..MaxWidth, nouts \in SeqsUpTo(0..MaxWidth, MaxLayers) :
        BuildMLP(seed, nin, nouts)
    \/ \E vals \in SeqsUpTo(LeafVals, MaxWidth) : Forward(vals)
    \/ \E r \in Nodes : BackwardOut(r)

SpecMLP == InitMLP /\ [][NextMLP]_vars

(***************************************************************************)
(* Properties of the engine.                                               *)
(***************************************************************************)
RECURSIVE ReachSet(_, _)
\* the least set of nodes that holds S and every parent of its members
ReachSet(par, S) ==
    LET T == S \cup UNION {Range(par[n]) : n \in S}
    IN  IF T = S THEN S ELSE ReachSet(par, T)

\* the nodes reachable from r over the parent links
Reachable(r) == ReachSet(parents, {r})

\* the nodes reachable from r that list n as a parent
Consumers(r, n) == {m \in Reachable(r) : n \in Range(parents[m])}

TableDeriv(m, j) ==
    IF op[m] = "Add" THEN 1 ELSE data[parents[m][3 - j]]

RECURSIVE PathGrad(_, _)
\* the sum, over the paths from r to n (each parent slot its own path), of the
\* product of the local derivatives along the path
PathGrad(r, n) ==
    LET via(j) == IF j \in DOMAIN parents[r]
                  THEN TableDeriv(r, j) * PathGrad(parents[r][j], n)
                  ELSE 0
    IN  (IF r = n THEN 1 ELSE 0) + via(1) + via(2)

\* the graph under r has leaves, add and mul nodes only, all with gradient 0
\* when the call started
FreshAddMul(r) ==
    \A n \in Reachable(r) : op[n] \in {"None", "Add", "Mul"} /\ grad0[n] = 0

\* C2: after backward(root) over add and mul nodes whose gradients were all 0,
\* every reachable node's gradient is the sum over the root-to-node paths of the
\* product of the local derivatives; d = add(a, a) leaves 2 in the leaf a.
C2_PathSum ==
    (pc = "done" /\ FreshAddMul(root)) =>
        /\ \A n \in Reachable(root) : grad[n] = PathGrad(root, n)
        /\ (op[root] = "Add" /\ parents[root][1] = parents[root][2]
              /\ op[parents[root][1]] = "None")
            => grad[parents[root][1]] = 2

\* backward(d) for d = add(a, a) over a fresh leaf a has returned 2 in a
C2_Witness ==
    /\ pc = "done"
    /\ FreshAddMul(root)
    /\ op[root] = "Add"
    /\ parents[root][1] = parents[root][2]
    /\ op[parents[root][1]] = "None"
    /\ grad[parents[root][1]] = 2

\* the gradients a first-ever backward(r) over the graph gives: every gradient
\* is 0 when it starts
FirstBackward(r) == BackwardFrom([n \in Nodes |-> 0], r)

\* no operation node under r, other than r, holds a gradient from an earlier pass
StaleFree(r) ==
    \A n \in Reachable(r) \ {r} : op[n] # "None" => grad0[n] = 0

\* every parameter holds the gradient a first-ever backward(root) would give
ParamsAsFirst ==
    \A i \in DOMAIN params : grad[params[i]] = FirstBackward(root)[params[i]]

\* C3 as stated: after zero_grad(), backward(root) leaves every parameter with the
\* gradient of a first-ever backward(root), for any root, also one whose graph was
\* back-propagated before the zero_grad().
C3_AnyRoot == (pc = "done" /\ afterZero) => ParamsAsFirst

\* C3 amended: after zero_grad(), backward(root) leaves every parameter with the
\* gradient of a first-ever backward(root), provided no operation node under root
\* other than root still holds a gradient from an earlier pass.
C3_FreshInterior == (pc = "done" /\ afterZero /\ StaleFree(root)) => ParamsAsFirst

\* a pass after zero_grad() over a graph that an earlier pass left gradients in,
\* reaching a parameter
C3_Witness ==
    /\ pc = "done"
    /\ afterZero
    /\ StaleFree(root)
    /\ \E n \in Reachable(root) : grad0[n] # 0
    /\ \E i \in DOMAIN params : params[i] \in Reachable(root) /\ grad[params[i]] # 0

\* the local derivative of node m with respect to parent slot j, computed from
\* the operands' values when m was constructed
CapturedDeriv(m, j) ==
    CASE op[m] = "Add" -> 1
      [] op[m] = "Mul" -> opvals[m][3 - j]
      [] op[m] = "Pow" -> cap[m].exponent * PowF(opvals[m][1], cap[m].exponent - 1)
      [] op[m] = "Tanh" -> 1 - TanhF(opvals[m][1]) * TanhF(opvals[m][1])

\* the local derivative the closure of m uses when it runs now
LiveDeriv(m, j) ==
    IF op[m] = "Mul" THEN data[parents[m][3 - j]] ELSE CapturedDeriv(m, j)

\* what the closures run in this pass added into p, with local derivative D
Received(p, D(_, _)) ==
    LET slot(k, j) == IF j \in DOMAIN parents[invoked[k]] /\ parents[invoked[k]][j] = p
                      THEN D(invoked[k], j) * outGrads[k]
                      ELSE 0
        RECURSIVE upto(_)
        upto(k) == IF k = 0 THEN 0 ELSE upto(k - 1) + slot(k, 1) + slot(k, 2)
    IN  upto(Len(invoked))

\* C4 as stated: every closure, mul's too, adds into each parent what the operand
\* values captured at construction give, whatever step() did to them since.
C4_CapturedOperands ==
    pc = "done" =>
        \A p \in Nodes :
            grad[p] = (IF p = root THEN 1 ELSE grad0[p]) + Received(p, CapturedDeriv)

\* C6: backward(root) assigns 1 to root's gradient and otherwise only adds: every
\* other node ends with what it held plus what the closures of the pass sent it; a
\* leaf under a newly built expression ends with what it held plus what a first
\* backward of that expression gives it.
C6_OnlyAdds ==
    pc = "done" =>
        /\ grad[root] = 1
        /\ \A p \in Nodes \ {root} : grad[p] = grad0[p] + Received(p, LiveDeriv)
        /\ StaleFree(root) =>
            \A p \in Nodes \ {root} :
                op[p] = "None" => grad[p] = grad0[p] + FirstBackward(root)[p]

\* the second of two expressions over one leaf has been back-propagated with no
\* zero_grad() since the first
C6_Witness ==
    /\ pc = "done"
    /\ ~afterZero
    /\ op[root] # "None"
    /\ grad0[root] = 0
    /\ StaleFree(root)
    /\ \E p \in Reachable(root) \ {root} :
        /\ op[p] = "None"
        /\ grad0[p] # 0
        /\ FirstBackward(root)[p] # 0
        /\ grad[p] = grad0[p] + FirstBackward(root)[p]

RECURSIVE Occurrences(_, _)
\* how many entries of the sequence s are n
Occurrences(s, n) ==
    IF s = <<>> THEN 0 ELSE (IF Head(s) = n THEN 1 ELSE 0) + Occurrences(Tail(s), n)

\* C7: step() takes lr * gradient off the value of each node of its list, and
\* changes no gradient, no value of another node, no node count and no parent link.
C7_StepFrame ==
    [][Step =>
        /\ \A n \in Nodes :
            data'[n] = data[n] - lr * grad[n] * Occurrences(params, n)
        /\ Len(data') = Len(data)
        /\ grad' = grad
        /\ parents' = parents
        /\ op' = op]_vars

\* step() has moved a parameter that held a gradient, next to a leaf outside
\* the list that holds a gradient too
C7_Witness ==
    /\ pc = "idle"
    /\ \E i \in DOMAIN params : data[params[i]] \notin LeafVals /\ grad[params[i]] # 0
    /\ \E n \in Nodes \ Range(params) :
        op[n] = "None" /\ grad[n] # 0 /\ data[n] \in LeafVals

\* C8: the order built by backward(root) holds every node reachable from root
\* exactly once, nodes being told apart by identity.
C8_TopoOnce ==
    pc = "done" =>
        /\ Range(topo) = Reachable(root)
        /\ Len(topo) = Cardinality(Reachable(root))

\* an order over two different leaves of equal value and gradient, or over a node
\* used as both operands, each appearing once
C8_Witness ==
    /\ pc = "done"
    /\ \E a \in Range(topo), b \in Range(topo) :
        a # b /\ data[a] = data[b] /\ grad0[a] = grad0[b]
    /\ \E m \in Range(topo) : Len(parents[m]) = 2 /\ parents[m][1] = parents[m][2]

\* the parent relation under r holds a cycle
HasCycle(r) ==
    \E n \in Reachable(r) : n \in ReachSet(parents, Range(parents[n]))

\* C5 as stated: over a parent relation with a cycle, build_topo does not return.
C5_CycleNeverReturns == pc = "seed" => ~HasCycle(root)

\* C5 amended: build_topo returns on every graph, with a cycle or without (a node
\* is marked visited before its parents are entered, so it is entered once), and
\* never runs out of stack; the cycle goes unnoticed.
C5_Terminates ==
    /\ [](pc # "overflow")
    /\ (pc = "topo") ~> (pc = "seed")

\* build_topo has returned over a parent relation with a cycle
C5_Witness ==
    /\ pc = "seed"
    /\ HasCycle(root)
    /\ Range(topo) = Reachable(root)

RECURSIVE CountBySizes(_, _)
\* the sum over the layers i..k of widths sz of (inputs + 1) * neurons
CountBySizes(sz, i) ==
    IF i >= Len(sz) THEN 0 ELSE (sz[i] + 1) * sz[i + 1] + CountBySizes(sz, i + 1)

\* C9: parameters() of a network of widths [s0, .., sk] returns the sum over its
\* layers of (s(i-1) + 1) * s(i) nodes, all different leaves: one weight for each
\* input and one bias for each neuron; 37 for widths [2, 4, 4, 1].
C9_ParamCount ==
    /\ pc # "start" =>
        /\ Len(MLPParameters(layers)) = CountBySizes(sizes, 1)
        /\ Cardinality(Range(MLPParameters(layers))) = CountBySizes(sizes, 1)
        /\ \A n \in Range(MLPParameters(layers)) : n \in Nodes /\ op[n] = "None"
        /\ \A l \in DOMAIN layers :
            /\ Len(layers[l]) = sizes[l + 1]
            /\ \A j \in DOMAIN layers[l] : Len(layers[l][j].w) = sizes[l]
    /\ Len(MLPParameters(MLPNew(EmptyHeap, 0, 2, <<4, 4, 1>>).layers)) = 37

\* a network of two layers of different widths, neurons in each, has been built
C9_Witness ==
    /\ pc = "idle"
    /\ Len(layers) = 2
    /\ sizes[2] # sizes[3]
    /\ sizes[1] > 0 /\ sizes[2] > 0 /\ sizes[3] > 0
    /\ Len(MLPParameters(layers)) = (sizes[1] + 1) * sizes[2] + (sizes[2] + 1) * sizes[3]

\* node n is the weighted sum plus bias of neuron nr: the bias itself when no
\* input was paired with a weight, else an add of the running sum and a product
\* of a weight of nr
IsSum(nr, n) ==
    \/ n = nr.b
    \/ /\ op[n] = "Add"
       /\ op[parents[n][2]] = "Mul"
       /\ parents[parents[n][2]][1] \in Range(nr.w)

\* C10: in a network of at least one layer every neuron of every layer but the
\* last is nonlinear and returns a tanh node over its sum, and every neuron of the
\* last layer is linear and returns its sum, which is no tanh node.
C10_LastLinear ==
    /\ \A l \in DOMAIN layers : \A j \in DOMAIN layers[l] :
        layers[l][j].nonlin <=> l # Len(layers)
    /\ \A l \in DOMAIN louts : \A j \in DOMAIN louts[l] :
        LET nr == layers[l][j]
            out == louts[l][j]
        IN  IF l # Len(layers)
            THEN op[out] = "Tanh" /\ IsSum(nr, parents[out][1])
            ELSE op[out] # "Tanh" /\ IsSum(nr, out)

\* a network of two layers with neurons and inputs has been called
C10_Witness ==
    /\ Len(louts) = 2
    /\ \E j \in DOMAIN louts[1] : op[louts[1][j]] = "Tanh"
    /\ \E j \in DOMAIN louts[2] : op[louts[2][j]] = "Add"

\* the mul nodes under node n
MulsUnder(n) == {m \in Reachable(n) : op[m] = "Mul"}

\* C11: Neuron::call on an input vector longer or shorter than the weights returns
\* a node all the same: its products are exactly the pairs (w[i], x[i]) up to the
\* shorter length, no input and no weight beyond that length is under the output,
\* and a backward pass over an output leaves their gradients as they were, at 0.
C11_ZipShorter ==
    louts # <<>> =>
        \A j \in DOMAIN layers[1] :
            LET nr == layers[1][j]
                out == louts[1][j]
                k == Min(Len(nr.w), Len(xin))
                surplus == {xin[i] : i \in (k + 1)..Len(xin)}
                               \cup {nr.w[i] : i \in (k + 1)..Len(nr.w)}
            IN  /\ out \in Nodes
                /\ {parents[m] : m \in MulsUnder(out)} = {<<nr.w[i], xin[i]>> : i \in 1..k}
                /\ Cardinality(MulsUnder(out)) = k
                /\ surplus \cap Reachable(out) = {}
                /\ pc = "done" => \A n \in surplus : grad[n] = grad0[n] /\ grad[n] = 0

\* a neuron with fewer weights than inputs has been called and its output
\* back-propagated: a paired weight holds a gradient, a surplus input is there
C11_Witness ==
    /\ pc = "done"
    /\ louts # <<>>
    /\ \E j \in DOMAIN layers[1] :
        /\ root = louts[1][j]
        /\ Len(layers[1][j].w) >= 1
        /\ Len(xin) > Len(layers[1][j].w)
        /\ grad[layers[1][j].w[1]] # 0

\* the same with more weights than inputs
C11_SurplusWeights ==
    /\ pc = "done"
    /\ louts # <<>>
    /\ \E j \in DOMAIN layers[1] :
        /\ root = louts[1][j]
        /\ Len(xin) >= 1
        /\ Len(layers[1][j].w) > Len(xin)
        /\ grad[layers[1][j].w[1]] # 0

\* C12 (a step from "idle" to "done" or "overflow" is a whole backward(root')
\* call): a backward(root) call changes gradients only, and only of nodes reachable
\* from root: every value, parent list and operation tag (and what the closures
\* captured), the number of nodes, and the gradient of every node not reachable
\* from root are after the call what they were before it.
C12_BackwardFrame ==
    [][(pc = "idle" /\ pc' \in {"done", "overflow"}) =>
        /\ data' = data
        /\ parents' = parents
        /\ op' = op
        /\ cap' = cap
        /\ DOMAIN grad' = DOMAIN grad
        /\ \A n \in Nodes \ Reachable(root') : grad'[n] = grad[n]]_vars

\* a pass has changed the gradient of a node under the root, next to a node
\* outside the root's graph that holds the gradient of an earlier pass
C12_Witness ==
    /\ pc = "done"
    /\ \E n \in Reachable(root) \ {root} : grad[n] # grad0[n]
    /\ \E m \in Nodes \ Reachable(root) : grad0[m] # 0 /\ grad[m] = grad0[m]

====
